---- MODULE Spec2Model ----
(***************************************************************************)
(* Model of src/examples/OrderExample.tsx: the order canonicalisation      *)
(* pipeline (floatToWire, Cloid, orderTypeToWire, orderRequestToOrderWire, *)
(* orderWiresToOrderAction) and the top-level script that signs and posts  *)
(* the order.                                                              *)
(*                                                                         *)
(* Numbers.  A JavaScript number is modelled as a signed decimal with      *)
(* FracDigits = 13 fractional digits, split so that every component fits   *)
(* TLC's 32-bit integers:                                                  *)
(*     [neg, int, f8, tail]  =  (-1)^neg * (int + f8/10^8 + tail/10^13)    *)
(* f8 holds fractional digits 1..8 and tail digits 9..13.  This is the     *)
(* resolution at which the 1e-12 tolerance of floatToWire is visible       *)
(* (1e-12 is 10 units of the last digit).  neg with a zero magnitude is    *)
(* the number -0.  NaN and the infinities are not modelled.                *)
(*                                                                         *)
(* Strings are sequences of one-character strings.  toFixed, parseFloat,    *)
(* toString(16), padStart and decimal.js's Decimal are modelled by what     *)
(* they do to such strings.                                                 *)
(***************************************************************************)
EXTENDS Integers, Sequences, FiniteSets, TLC

VARIABLES
    fpc, x, fret,              \* a call of floatToWire: position, argument, outcome
    cpc, cin, cloidObj, craw,  \* a Cloid: position, factory input, object, last toRaw()
    wpc, order, asset, wret,   \* a call of orderRequestToOrderWire
    apc, orderWires, grouping, aret,
                               \* a call of orderWiresToOrderAction, and the grouping
                               \* mode its caller wants the batch to have
    pc, orderRequest, assetId, wallet, nonce, orderWire, orderAction,
    signature, signCalls, signedAction, signedNonce, requestData, posted
                               \* the script, lines 112-128 and 158-202

vars == <<fpc, x, fret, cpc, cin, cloidObj, craw, wpc, order, asset, wret,
          apc, orderWires, grouping, aret, pc, orderRequest, assetId, wallet, nonce,
          orderWire, orderAction, signature, signCalls, signedAction,
          signedNonce, requestData, posted>>

floatVars == <<fpc, x, fret>>
cloidVars == <<cpc, cin, cloidObj, craw>>
wireVars  == <<wpc, order, asset, wret>>
actVars   == <<apc, orderWires, grouping, aret>>
mainVars  == <<pc, orderRequest, assetId, wallet, nonce, orderWire, orderAction,
               signature, signCalls, signedAction, signedNonce, requestData, posted>>

\* The value of a variable that is not in use (a JavaScript undefined).
Undefined == [tag |-> "undefined"]

-----------------------------------------------------------------------------
(* Bounds of the model. *)

\* integer parts 0..MaxIntPart are enumerated (plus the script's 90000)
MaxIntPart == 2
\* leading digits 0..MaxLead at every one of the 8 fractional places
MaxLead == 2

-----------------------------------------------------------------------------
(* Decimal arithmetic on digit strings. *)

\* the 8 of toFixed(8), and the 12 of the tolerance 1e-12
Places == 8
ToleranceExp == 12

\* numbers carry one fractional digit more than the tolerance has
FracDigits == ToleranceExp + 1
TailDigits == FracDigits - Places

RECURSIVE Pow10(_)
Pow10(n) == IF n = 0 THEN 1 ELSE 10 * Pow10(n - 1)

F8Scale == Pow10(Places)
TailScale == Pow10(TailDigits)

DigitChars == <<"0", "1", "2", "3", "4", "5", "6", "7", "8", "9">>

DigitVal(c) == (CHOOSE d \in 1..10 : DigitChars[d] = c) - 1

RECURSIVE NatToStr(_)
NatToStr(n) ==
    IF n < 10 THEN <<DigitChars[n + 1]>>
    ELSE NatToStr(n \div 10) \o <<DigitChars[(n % 10) + 1]>>

RECURSIVE StrToNat(_)
StrToNat(s) ==
    IF s = <<>> THEN 0
    ELSE 10 * StrToNat(SubSeq(s, 1, Len(s) - 1)) + DigitVal(s[Len(s)])

RECURSIVE Zeros(_)
Zeros(n) == IF n <= 0 THEN <<>> ELSE <<"0">> \o Zeros(n - 1)

PadStart(s, n) == Zeros(n - Len(s)) \o s

\* index of the first occurrence of character c in s, 0 when there is none
IndexOf(s, c) ==
    IF \E i \in 1..Len(s) : s[i] = c
    THEN CHOOSE i \in 1..Len(s) : s[i] = c /\ \A j \in 1..(i - 1) : s[j] # c
    ELSE 0

Slice(s, from) == SubSeq(s, from, Len(s))

(* A numeric literal [-]digits[.digits][e[+|-]digits] read as: sign, the     *)
(* digit string ds of the mantissa without its point, and p, the number of  *)
(* digits of ds that stand before the decimal point once the exponent is    *)
(* applied (p may be <= 0 or > Len(ds)).                                    *)
Scan(s) ==
    LET neg  == Len(s) > 0 /\ s[1] = "-"
        body == IF neg THEN Slice(s, 2) ELSE s
        ePos == IndexOf(body, "e")
        mant == IF ePos = 0 THEN body ELSE SubSeq(body, 1, ePos - 1)
        expS == IF ePos = 0 THEN <<>> ELSE Slice(body, ePos + 1)
        expN == IF expS = <<>> THEN 0
                ELSE IF expS[1] = "-" THEN 0 - StrToNat(Slice(expS, 2))
                ELSE IF expS[1] = "+" THEN StrToNat(Slice(expS, 2))
                ELSE StrToNat(expS)
        dot  == IndexOf(mant, ".")
        intS == IF dot = 0 THEN mant ELSE SubSeq(mant, 1, dot - 1)
        frcS == IF dot = 0 THEN <<>> ELSE Slice(mant, dot + 1)
    IN  [neg |-> neg, ds |-> intS \o frcS, p |-> Len(intS) + expN]

\* the digit of a scanned literal at place k: k = 1 is the first digit right
\* of the point, k = 0 the units digit, k = -1 the tens digit
PlaceDigit(sc, k) ==
    LET i == sc.p + k
    IN  IF i \in 1..Len(sc.ds) THEN DigitVal(sc.ds[i]) ELSE 0

RECURSIVE PlacesVal(_, _, _)
\* the number written by the digits at places from..to
PlacesVal(sc, from, to) ==
    IF from > to THEN 0
    ELSE 10 * PlacesVal(sc, from, to - 1) + PlaceDigit(sc, to)

IsZero(n) == n.int = 0 /\ n.f8 = 0 /\ n.tail = 0

\* JavaScript's == on numbers: -0 and 0 are equal
NumEq(a, b) ==
    /\ a.int = b.int /\ a.f8 = b.f8 /\ a.tail = b.tail
    /\ (a.neg = b.neg \/ IsZero(a))

-----------------------------------------------------------------------------
(* The built-ins floatToWire calls. *)

\* a toFixed that cuts the digits after the 8th instead of rounding
ToFixedTrunc(n) ==
    (IF n.neg /\ ~IsZero(n) THEN <<"-">> ELSE <<>>)
        \o NatToStr(n.int) \o <<".">> \o PadStart(NatToStr(n.f8), Places)

(* Number.prototype.toFixed(8), for |x| < 1e21: "-" when x < 0 (so not for  *)
(* -0), then the integer n closest to x * 10^8, the larger one on a tie,    *)
(* written with the point before its last 8 digits.                         *)
ToFixed(n) ==
    LET up == 2 * n.tail >= TailScale
        f  == IF up THEN n.f8 + 1 ELSE n.f8
        i  == IF f = F8Scale THEN n.int + 1 ELSE n.int
        ff == IF f = F8Scale THEN 0 ELSE f
    IN  (IF n.neg /\ ~IsZero(n) THEN <<"-">> ELSE <<>>)
            \o NatToStr(i) \o <<".">> \o PadStart(NatToStr(ff), Places)

(* parseFloat on a decimal literal, with or without an exponent.  The sign  *)
(* is kept on a zero: parseFloat("-0.00000000") is -0.                      *)
NumberOf(sc) ==
    [neg  |-> sc.neg,
     int  |-> PlacesVal(sc, 1 - sc.p, 0),
     f8   |-> PlacesVal(sc, 1, Places),
     tail |-> PlacesVal(sc, Places + 1, FracDigits)]

ParseFloat(s) == NumberOf(Scan(s))

(* Math.abs(a - b) >= tol, tol in units of the last fractional digit.  The  *)
(* difference is formed component by component so that no intermediate     *)
(* value leaves 32 bits.                                                    *)
AbsDiffGE(a, b, tol) ==
    LET sa == IF a.neg THEN -1 ELSE 1
        sb == IF b.neg THEN -1 ELSE 1
        dI == sa * a.int - sb * b.int
        dF == sa * a.f8 - sb * b.f8
        dT == sa * a.tail - sb * b.tail
        m  == dI * F8Scale + dF
        v  == m * TailScale + dT
        Abs(k) == IF k < 0 THEN 0 - k ELSE k
    IN  IF Abs(dI) >= 3 THEN TRUE
        ELSE IF Abs(m) >= 3 THEN TRUE
        ELSE Abs(v) >= tol

\* 1e-12 in units of the last fractional digit
Tolerance == Pow10(FracDigits - ToleranceExp)

RECURSIVE StripLeadingZeros(_)
StripLeadingZeros(sc) ==
    IF sc.ds # <<>> /\ sc.ds[1] = "0"
    THEN StripLeadingZeros([sc EXCEPT !.ds = Slice(sc.ds, 2), !.p = sc.p - 1])
    ELSE sc

RECURSIVE StripTrailingZeros(_)
StripTrailingZeros(ds) ==
    IF ds # <<>> /\ ds[Len(ds)] = "0"
    THEN StripTrailingZeros(SubSeq(ds, 1, Len(ds) - 1))
    ELSE ds

\* decimal.js defaults: exponential notation at exponents <= -7 and >= 21
ToExpNeg == -7
ToExpPos == 21

\* a Decimal that keeps the trailing zeros of its coefficient
DecimalKeepZeros(sc) ==
    IF sc.ds = <<>> THEN [neg |-> sc.neg, d |-> <<"0">>, e |-> 0]
    ELSE [neg |-> sc.neg, d |-> sc.ds, e |-> sc.p - 1]

(* decimal.js, new Decimal(s): the coefficient without leading and trailing *)
(* zeros, the exponent e of its first digit, and the sign (kept on zero).   *)
DecimalOf(sc) ==
    LET d == StripTrailingZeros(sc.ds)
    IN  IF d = <<>> THEN [neg |-> sc.neg, d |-> <<"0">>, e |-> 0]
        ELSE [neg |-> sc.neg, d |-> d, e |-> sc.p - 1]

Decimal(s) == DecimalOf(StripLeadingZeros(Scan(s)))

\* decimal.js finiteToString(x, isExp)
FiniteToString(D, isExp) ==
    LET len == Len(D.d)
    IN  IF isExp
        THEN (IF len > 1 THEN <<D.d[1]>> \o <<".">> \o Slice(D.d, 2) ELSE D.d)
                 \o (IF D.e < 0 THEN <<"e", "-">> \o NatToStr(0 - D.e)
                     ELSE <<"e", "+">> \o NatToStr(D.e))
        ELSE IF D.e < 0 THEN <<"0", ".">> \o Zeros(0 - D.e - 1) \o D.d
        ELSE IF D.e >= len THEN D.d \o Zeros(D.e + 1 - len)
        ELSE IF D.e + 1 < len
             THEN SubSeq(D.d, 1, D.e + 1) \o <<".">> \o Slice(D.d, D.e + 2)
             ELSE D.d

DecimalIsZero(D) == D.d = <<"0">>

\* decimal.js valueOf: as toString, but a zero keeps its sign
DecimalValueOf(D) ==
    (IF D.neg THEN <<"-">> ELSE <<>>)
        \o FiniteToString(D, D.e <= ToExpNeg \/ D.e >= ToExpPos)

\* decimal.js toString: the sign is dropped on a zero
DecimalToString(D) ==
    (IF D.neg /\ ~DecimalIsZero(D) THEN <<"-">> ELSE <<>>)
        \o FiniteToString(D, D.e <= ToExpNeg \/ D.e >= ToExpPos)

-----------------------------------------------------------------------------
(* floatToWire, lines 86-95. *)

Ok(v) == [tag |-> "ok", val |-> v]
Throw(msg) == [tag |-> "throw", msg |-> msg]

RoundingError == "floatToWire causes rounding"

\* lines 88-94, rounded being x.toFixed(8)
FloatToWireRounded(n, rounded) ==
    IF AbsDiffGE(ParseFloat(rounded), n, Tolerance) THEN Throw(RoundingError)
    ELSE IF rounded = <<"-", "0">> THEN Ok(<<"0">>)
    ELSE Ok(DecimalToString(Decimal(rounded)))

floatToWire(n) == FloatToWireRounded(n, ToFixed(n))

-----------------------------------------------------------------------------
(* Calls of floatToWire on the numbers of a bounded set. *)

Num(neg, i, f, t) == [neg |-> neg, int |-> i, f8 |-> f, tail |-> t]

IntParts == 0..MaxIntPart \cup {90000}

F8Parts ==
    {d * Pow10(j) : d \in 0..MaxLead, j \in 0..(Places - 1)}
        \cup {12, 123, 12345678, F8Scale - 1}

Tails ==
    0..(Tolerance + 1)
        \cup {TailScale \div 2 - 1, TailScale \div 2, 90000}
        \cup (TailScale - Tolerance - 1)..(TailScale - 1)

Numbers == {Num(neg, i, f, t) : neg \in BOOLEAN, i \in IntParts, f \in F8Parts, t \in Tails}

FloatIdle == fpc = "idle" /\ x = Undefined /\ fret = Undefined
CloidIdle == cpc = "idle" /\ cin = Undefined /\ cloidObj = Undefined /\ craw = Undefined
WireIdle  == wpc = "idle" /\ order = Undefined /\ asset = 0 /\ wret = Undefined
ActIdle   == apc = "idle" /\ orderWires = <<>> /\ grouping = "na" /\ aret = Undefined
MainIdle  ==
    /\ pc = "idle" /\ orderRequest = Undefined /\ assetId = 0 /\ wallet = Undefined
    /\ nonce = 0 /\ orderWire = Undefined /\ orderAction = Undefined
    /\ signature = Undefined /\ signCalls = 0 /\ signedAction = Undefined
    /\ signedNonce = 0 /\ requestData = Undefined /\ posted = 0

FloatInit ==
    /\ fpc = "call" /\ x \in Numbers /\ fret = Undefined
    /\ CloidIdle /\ WireIdle /\ ActIdle /\ MainIdle

FloatToWireCall ==
    /\ fpc = "call"
    /\ fret' = floatToWire(x)
    /\ fpc' = "done"
    /\ UNCHANGED <<x, cloidVars, wireVars, actVars, mainVars>>

FloatNext == FloatToWireCall

SpecFloat == FloatInit /\ [][FloatNext]_vars

\* distance of a number from the nearest multiple of 1e-8, in units of 1e-13
Dist8(n) == IF 2 * n.tail >= TailScale THEN TailScale - n.tail ELSE n.tail

(* C1, as stated: every x that needs more than 8 fractional digits makes    *)
(* floatToWire fail with the precision-loss error.                          *)
C1_FailsBeyond8Digits ==
    (fpc = "done" /\ x.tail # 0) => fret = Throw(RoundingError)

(* C1, amended: floatToWire fails with the precision-loss error exactly on  *)
(* the x that lie 1e-12 or more away from their rounding to 8 decimals; an  *)
(* x closer than that is accepted although it needs more than 8 digits.     *)
C1_FailsIffBeyondTolerance ==
    fpc = "done" =>
        /\ fret.tag \in {"ok", "throw"}
        /\ (fret = Throw(RoundingError)) <=> (Dist8(x) >= Tolerance)

C1_Witness ==
    /\ fpc = "done"
    /\ x = Num(FALSE, 0, 12345678, 90000)
    /\ fret = Throw(RoundingError)

(* C2: no signed zero reaches the wire: a successful floatToWire never      *)
(* returns "-0", and a result whose value is zero is exactly "0".           *)
C2_NoNegativeZero ==
    (fpc = "done" /\ fret.tag = "ok") =>
        /\ fret.val # <<"-", "0">>
        /\ fret.val[1] = "-" => ~IsZero(ParseFloat(fret.val))
        /\ IsZero(ParseFloat(fret.val)) => fret.val = <<"0">>

C2_Witness ==
    /\ fpc = "done"
    /\ x.neg /\ ~IsZero(x)
    /\ fret = Ok(<<"0">>)

\* no zero at the end of a fraction and no point at the end of the mantissa
Shortest(s) ==
    LET ePos == IndexOf(s, "e")
        mant == IF ePos = 0 THEN s ELSE SubSeq(s, 1, ePos - 1)
    IN  /\ mant # <<>>
        /\ mant[Len(mant)] # "."
        /\ IndexOf(mant, ".") # 0 => mant[Len(mant)] # "0"

(* C3: round trip.  For every x with at most 8 fractional digits            *)
(* floatToWire succeeds, the result parsed back is x, and the result has no *)
(* trailing fractional zeros and no trailing point: 0.001 gives "0.001" and *)
(* 90000 gives "90000".                                                     *)
C3_RoundTrip ==
    (fpc = "done" /\ x.tail = 0) =>
        /\ fret.tag = "ok"
        /\ NumEq(ParseFloat(fret.val), x)
        /\ Shortest(fret.val)
        /\ x = Num(FALSE, 0, 100000, 0) => fret.val = <<"0", ".", "0", "0", "1">>
        /\ x = Num(FALSE, 90000, 0, 0) => fret.val = <<"9", "0", "0", "0", "0">>

C3_Witness ==
    /\ fpc = "done"
    /\ x = Num(FALSE, 0, 100000, 0)
    /\ fret = Ok(<<"0", ".", "0", "0", "1">>)

-----------------------------------------------------------------------------
(* class Cloid, lines 46-74. *)

\* slack around the 32 characters of a cloid payload: lengths 32 - LenSlack .. 32 + LenSlack
LenSlack == 1

CloidChars == 32

HexChars == <<"0", "1", "2", "3", "4", "5", "6", "7", "8", "9",
              "a", "b", "c", "d", "e", "f">>

RECURSIVE NatToHex(_)
NatToHex(n) ==
    IF n < 16 THEN <<HexChars[n + 1]>>
    ELSE NatToHex(n \div 16) \o <<HexChars[(n % 16) + 1]>>

(* Number.prototype.toString(16) on the numbers used as cloids: integers    *)
(* and integers plus one half (one half is 0.8 in base 16); "-" in front of *)
(* a negative number, none in front of -0.                                  *)
NumberToString16(n) ==
    (IF n.neg /\ ~IsZero(n) THEN <<"-">> ELSE <<>>)
        \o NatToHex(n.int)
        \o (IF n.f8 = 0 THEN <<>> ELSE <<".", "8">>)

StartsWith(s, pre) == Len(s) >= Len(pre) /\ SubSeq(s, 1, Len(pre)) = pre

\* _validate, lines 54-61
Cloid_validate(rawCloid) ==
    IF ~StartsWith(rawCloid, <<"0", "x">>) THEN Throw("cloid is not a hex string")
    ELSE IF Len(Slice(rawCloid, 3)) # CloidChars THEN Throw("cloid is not 16 bytes")
    ELSE Ok(Undefined)

\* constructor, lines 49-52
Cloid_new(rawCloid) ==
    IF Cloid_validate(rawCloid).tag = "throw" THEN Cloid_validate(rawCloid)
    ELSE Ok([rawCloid |-> rawCloid])

Cloid_fromInt(n) ==
    Cloid_new(<<"0", "x">> \o PadStart(NumberToString16(n), CloidChars))

Cloid_fromStr(s) == Cloid_new(s)

Cloid_toRaw(c) == c.rawCloid

RECURSIVE Rep(_, _)
Rep(c, n) == IF n <= 0 THEN <<>> ELSE <<c>> \o Rep(c, n - 1)

CloidStrings ==
    {pre \o Rep(c, n) :
        pre \in {<<"0", "x">>, <<"0", "X">>, <<"x", "0">>},
        c \in {"0", "7", "a", "f", "F", "g", "z", "-", " "},
        n \in (CloidChars - LenSlack)..(CloidChars + LenSlack)}
      \cup {Rep(c, n) : c \in {"0", "f"},
                        n \in (CloidChars - LenSlack)..(CloidChars + LenSlack + 2)}

CloidNumbers ==
    {Num(neg, i, f, 0) : neg \in BOOLEAN, i \in {0, 1, 255, 2147483647},
                         f \in {0, F8Scale \div 2}}

CloidInputs ==
    {[kind |-> "str", s |-> s] : s \in CloidStrings}
        \cup {[kind |-> "int", n |-> n] : n \in CloidNumbers}

Cloid_from(in) == IF in.kind = "int" THEN Cloid_fromInt(in.n) ELSE Cloid_fromStr(in.s)

CloidInit ==
    /\ cpc = "new" /\ cin \in CloidInputs /\ cloidObj = Undefined /\ craw = Undefined
    /\ FloatIdle /\ WireIdle /\ ActIdle /\ MainIdle

\* Cloid.fromInt(n) or Cloid.fromStr(s): the object, or the error thrown
CloidConstruct ==
    /\ cpc = "new"
    /\ cloidObj' = Cloid_from(cin)
    /\ cpc' = IF Cloid_from(cin).tag = "ok" THEN "live" ELSE "failed"
    /\ UNCHANGED <<cin, craw, floatVars, wireVars, actVars, mainVars>>

CloidToRaw ==
    /\ cpc \in {"live", "read"}
    /\ craw' = Ok(Cloid_toRaw(cloidObj.val))
    /\ cpc' = "read"
    /\ UNCHANGED <<cin, cloidObj, floatVars, wireVars, actVars, mainVars>>

CloidNext == CloidConstruct \/ CloidToRaw

SpecCloid == CloidInit /\ [][CloidNext]_vars

IsHexChar(c) ==
    \/ \E i \in 1..16 : HexChars[i] = c
    \/ c \in {"A", "B", "C", "D", "E", "F"}

IsPrefixedHex32(s) ==
    /\ Len(s) = 2 + CloidChars
    /\ s[1] = "0" /\ s[2] = "x"
    /\ \A i \in 3..Len(s) : IsHexChar(s[i])

(* C8: every Cloid that is constructed, by fromStr or by fromInt, has a     *)
(* toRaw() value that is "0x" followed by exactly 32 hexadecimal            *)
(* characters, and toRaw() returns the raw string it was constructed with.  *)
C8_RawIsPrefixedHex32 ==
    /\ cpc \in {"live", "read"} => IsPrefixedHex32(cloidObj.val.rawCloid)
    /\ cpc = "read" => craw = Ok(cloidObj.val.rawCloid)

-----------------------------------------------------------------------------
(* orderTypeToWire, lines 97-110, and orderRequestToOrderWire, lines        *)
(* 130-148.  A JavaScript object is a record; an optional key that is       *)
(* missing is missing from the record's domain.                             *)

Null == [tag |-> "null"]

EmptyObject == [k \in {} |-> Undefined]

Has(obj, key) == key \in DOMAIN obj

\* obj.key: undefined when the object has no such key
Get(obj, key) == IF Has(obj, key) THEN obj[key] ELSE Undefined

Truthy(v) == v # Undefined /\ v # Null

InvalidOrderType == "Invalid order type"

\* lines 101-107, px being the outcome of floatToWire(orderType.trigger.triggerPx)
TriggerWire(trigger, px) ==
    IF px.tag = "throw" THEN px
    ELSE Ok([trigger |-> [isMarket |-> trigger.isMarket,
                          triggerPx |-> px.val,
                          tpsl |-> trigger.tpsl]])

orderTypeToWire(orderType) ==
    IF Has(orderType, "limit") THEN Ok([limit |-> orderType.limit])
    ELSE IF Has(orderType, "trigger") /\ Truthy(orderType.trigger)
    THEN TriggerWire(orderType.trigger, floatToWire(orderType.trigger.triggerPx))
    ELSE Throw(InvalidOrderType)

\* a variant that writes the c key whether or not a cloid was supplied
OrderWireOfAlwaysC(o, a, p, s, t) ==
    IF p.tag = "throw" THEN p
    ELSE IF s.tag = "throw" THEN s
    ELSE IF t.tag = "throw" THEN t
    ELSE Ok([a |-> a, b |-> o.is_buy, p |-> p.val, s |-> s.val,
             r |-> o.reduce_only, t |-> t.val,
             c |-> IF Truthy(Get(o, "cloid")) THEN Cloid_toRaw(o.cloid)
                   ELSE Undefined])

(* lines 134-147, p, s and t being the outcomes of floatToWire(limit_px),   *)
(* floatToWire(sz) and orderTypeToWire(order_type), evaluated in that       *)
(* order: the first one that throws ends the call.                          *)
OrderWireOf(o, a, p, s, t) ==
    IF p.tag = "throw" THEN p
    ELSE IF s.tag = "throw" THEN s
    ELSE IF t.tag = "throw" THEN t
    ELSE IF Truthy(Get(o, "cloid"))
         THEN Ok([a |-> a, b |-> o.is_buy, p |-> p.val, s |-> s.val,
                  r |-> o.reduce_only, t |-> t.val, c |-> Cloid_toRaw(o.cloid)])
         ELSE Ok([a |-> a, b |-> o.is_buy, p |-> p.val, s |-> s.val,
                  r |-> o.reduce_only, t |-> t.val])

orderRequestToOrderWire(o, a) ==
    OrderWireOf(o, a, floatToWire(o.limit_px), floatToWire(o.sz),
                orderTypeToWire(o.order_type))

Tifs == {"Alo", "Ioc", "Gtc"}
Tpsls == {"tp", "sl"}

\* 90000, 0.001, 0.00000001, 0.123456789, -1e-13
Prices == {Num(FALSE, 90000, 0, 0), Num(FALSE, 0, 100000, 0), Num(FALSE, 0, 1, 0),
           Num(FALSE, 0, 12345678, 90000), Num(TRUE, 0, 0, 1)}
Sizes == {Num(FALSE, 0, 100000, 0), Num(FALSE, 1, 0, 0), Num(FALSE, 0, 0, 50000)}

LimitValues == {[tif |-> t] : t \in Tifs} \cup {Undefined}
TriggerValues ==
    {[triggerPx |-> px, isMarket |-> m, tpsl |-> k] :
        px \in {Num(FALSE, 90000, 0, 0), Num(FALSE, 0, 12345678, 90000)},
        m \in BOOLEAN, k \in Tpsls}
      \cup {Undefined}

OrderTypes ==
    {EmptyObject}
        \cup {[limit |-> l] : l \in LimitValues}
        \cup {[trigger |-> t] : t \in TriggerValues}
        \cup {[limit |-> l, trigger |-> t] : l \in LimitValues, t \in TriggerValues}

SomeCloid == [rawCloid |-> <<"0", "x">> \o PadStart(<<"1">>, CloidChars)]

OrdersNoCloid ==
    {[coin |-> "BTC", is_buy |-> b, sz |-> sz, limit_px |-> px,
      order_type |-> ot, reduce_only |-> r] :
        b \in BOOLEAN, sz \in Sizes, px \in Prices, ot \in OrderTypes, r \in BOOLEAN}

Orders ==
    OrdersNoCloid
        \cup {o @@ [cloid |-> c] : o \in OrdersNoCloid, c \in {Undefined, Null, SomeCloid}}

Assets == {0, 1}

WireInit ==
    /\ wpc = "call" /\ order \in Orders /\ asset \in Assets /\ wret = Undefined
    /\ FloatIdle /\ CloidIdle /\ ActIdle /\ MainIdle

OrderRequestToOrderWireCall ==
    /\ wpc = "call"
    /\ wret' = orderRequestToOrderWire(order, asset)
    /\ wpc' = "done"
    /\ UNCHANGED <<order, asset, floatVars, cloidVars, actVars, mainVars>>

WireNext == OrderRequestToOrderWireCall

SpecWire == WireInit /\ [][WireNext]_vars

CloidSupplied(o) == Has(o, "cloid") /\ o.cloid # Undefined /\ o.cloid # Null

(* C6: the wire record has a = asset, b = is_buy, p and s the encoded limit  *)
(* price and size, r = reduce_only, t the encoded order type; the c key is  *)
(* missing from the record exactly when no Cloid was supplied (key missing, *)
(* undefined or null), and is the Cloid's raw string otherwise.             *)
C6_WireRecord ==
    (wpc = "done" /\ wret.tag = "ok") =>
        /\ wret.val.a = asset
        /\ wret.val.b = order.is_buy
        /\ wret.val.p = floatToWire(order.limit_px).val
        /\ wret.val.s = floatToWire(order.sz).val
        /\ wret.val.r = order.reduce_only
        /\ wret.val.t = orderTypeToWire(order.order_type).val
        /\ DOMAIN wret.val \subseteq {"a", "b", "p", "s", "r", "t", "c"}
        /\ Has(wret.val, "c") <=> CloidSupplied(order)
        /\ CloidSupplied(order) => wret.val.c = order.cloid.rawCloid

C6_Witness ==
    /\ wpc = "done" /\ wret.tag = "ok"
    /\ Has(order, "cloid") /\ order.cloid = Null
    /\ ~Has(wret.val, "c")
    /\ wret.val.p = <<"9", "0", "0", "0", "0">>
    /\ wret.val.s = <<"0", ".", "0", "0", "1">>

Populated(obj, key) == Has(obj, key) /\ obj[key] # Undefined /\ obj[key] # Null

ExactlyOnePopulated(obj) == Populated(obj, "limit") # Populated(obj, "trigger")

(* C7: orderTypeToWire either fails or returns a variant with exactly one   *)
(* of limit / trigger populated; it fails whenever neither is populated in  *)
(* the input, a key that holds no value included, and then                  *)
(* orderRequestToOrderWire returns no wire record.                          *)
C7_OneVariantOrFailure ==
    wpc = "done" =>
        /\ wret.tag = "ok" => ExactlyOnePopulated(wret.val.t)
        /\ (~Populated(order.order_type, "limit") /\ ~Populated(order.order_type, "trigger"))
               => wret.tag = "throw"

C7_Witness ==
    /\ wpc = "done"
    /\ order.order_type = EmptyObject
    /\ wret = Throw(InvalidOrderType)

-----------------------------------------------------------------------------
(* orderWiresToOrderAction, lines 150-156. *)

\* the longest batch of wire records handed to the assembler
MaxOrders == 3

\* a variant that drops a record equal to the one before it
orderWiresToOrderActionDedup(ws) ==
    [type |-> "order",
     orders |-> IF Len(ws) >= 2 /\ ws[1] = ws[2] THEN Tail(ws) ELSE ws,
     grouping |-> "na"]

\* a variant with another grouping literal
orderWiresToOrderActionTpsl(ws) ==
    [type |-> "order", orders |-> ws, grouping |-> "normalTpsl"]

orderWiresToOrderAction(ws) ==
    [type |-> "order", orders |-> ws, grouping |-> "na"]

\* the script's orderRequest, lines 112-121
TheOrderRequest ==
    [coin |-> "BTC", is_buy |-> TRUE, sz |-> Num(FALSE, 0, 100000, 0),
     limit_px |-> Num(FALSE, 90000, 0, 0), reduce_only |-> FALSE,
     order_type |-> [limit |-> [tif |-> "Gtc"]]]

SampleOrders ==
    {TheOrderRequest,
     [TheOrderRequest EXCEPT !.is_buy = FALSE] @@ [cloid |-> SomeCloid],
     [TheOrderRequest EXCEPT !.order_type =
         [trigger |-> [triggerPx |-> Num(FALSE, 90000, 0, 0),
                       isMarket |-> TRUE, tpsl |-> "sl"]]]}

SampleWires == {orderRequestToOrderWire(o, 0).val : o \in SampleOrders}

WireBatches == UNION {[1..n -> SampleWires] : n \in 0..MaxOrders}

\* the grouping modes named at line 183
Groupings == {"na", "normalTpsl", "positionTpsl"}

ActInit ==
    /\ apc = "call" /\ orderWires \in WireBatches /\ grouping \in Groupings
    /\ aret = Undefined
    /\ FloatIdle /\ CloidIdle /\ WireIdle /\ MainIdle

\* the function has one parameter: the caller's grouping is not passed
OrderWiresToOrderActionCall ==
    /\ apc = "call"
    /\ aret' = orderWiresToOrderAction(orderWires)
    /\ apc' = "done"
    /\ UNCHANGED <<orderWires, grouping, floatVars, cloidVars, wireVars, mainVars>>

ActNext == OrderWiresToOrderActionCall

SpecAction == ActInit /\ [][ActNext]_vars

(* C9: the action has type "order" and its orders are the input records,    *)
(* as many, the same ones, at the same positions, duplicates included.      *)
C9_OrdersPreserved ==
    apc = "done" =>
        /\ aret.type = "order"
        /\ Len(aret.orders) = Len(orderWires)
        /\ \A i \in 1..Len(orderWires) : aret.orders[i] = orderWires[i]

C9_Witness ==
    /\ apc = "done"
    /\ Len(orderWires) = 3
    /\ orderWires[1] = orderWires[2] /\ orderWires[2] # orderWires[3]
    /\ aret.orders = orderWires

-----------------------------------------------------------------------------
(* The script: the top-level statements, lines 112-128 and 202, and         *)
(* orderExample, lines 158-200.  The order request, which the script        *)
(* writes as a literal, is an input here, and so is the Cloid factory call  *)
(* its cloid field may hold.                                                *)

NoCloid == [kind |-> "none"]

MainCloidInputs ==
    {NoCloid,
     [kind |-> "int", n |-> Num(FALSE, 1, 0, 0)],
     [kind |-> "str", s |-> <<"0", "x">> \o Rep("0", CloidChars - 1)]}

MainOrderTypes ==
    {[limit |-> [tif |-> "Gtc"]], [limit |-> [tif |-> "Ioc"]], EmptyObject,
     [trigger |-> [triggerPx |-> Num(FALSE, 0, 12345678, 90000),
                   isMarket |-> FALSE, tpsl |-> "tp"]]}

MainOrderRequests ==
    {[coin |-> "BTC", is_buy |-> b, sz |-> sz, limit_px |-> px,
      order_type |-> ot, reduce_only |-> FALSE] :
        b \in BOOLEAN,
        sz \in {Num(FALSE, 0, 100000, 0), Num(FALSE, 0, 0, 50000)},
        px \in {Num(FALSE, 90000, 0, 0), Num(FALSE, 90000, 50000000, 0),
                Num(FALSE, 0, 12345678, 90000)},
        ot \in MainOrderTypes}

\* the latest Date.now() the script may read
MaxNonce == 1

Signatures == {[r |-> "0x1", s |-> "0x2", v |-> 27]}

MainInit ==
    /\ pc = "start"
    /\ orderRequest \in MainOrderRequests
    /\ cin \in MainCloidInputs
    /\ assetId = 0 /\ wallet = Undefined /\ nonce = 0
    /\ orderWire = Undefined /\ orderAction = Undefined
    /\ signature = Undefined /\ signCalls = 0
    /\ signedAction = Undefined /\ signedNonce = 0
    /\ requestData = Undefined /\ posted = 0
    /\ cpc = "idle" /\ cloidObj = Undefined /\ craw = Undefined
    /\ FloatIdle /\ WireIdle /\ ActIdle

\* lines 112-121: the request literal, with the Cloid its cloid field constructs
EvalOrderRequest ==
    /\ pc = "start"
    /\ IF cin = NoCloid THEN pc' = "consts" /\ UNCHANGED orderRequest
       ELSE IF Cloid_from(cin).tag = "throw" THEN pc' = "aborted" /\ UNCHANGED orderRequest
       ELSE /\ pc' = "consts"
            /\ orderRequest' = orderRequest @@ [cloid |-> Cloid_from(cin).val]
    /\ UNCHANGED <<assetId, wallet, nonce, orderWire, orderAction, signature, signCalls,
                   signedAction, signedNonce, requestData, posted,
                   floatVars, cloidVars, wireVars, actVars>>

\* lines 123-126: assetId, activePool, wallet, nonce; privateKeyToAccount
\* throws on a key it does not accept
EvalConsts ==
    /\ pc = "consts"
    /\ assetId' = 0
    /\ \/ /\ wallet' = [address |-> "0xA"]
          /\ nonce' \in 0..MaxNonce
          /\ pc' = "wire"
       \/ /\ pc' = "aborted"
          /\ UNCHANGED <<wallet, nonce>>
    /\ UNCHANGED <<orderRequest, orderWire, orderAction, signature, signCalls,
                   signedAction, signedNonce, requestData, posted,
                   floatVars, cloidVars, wireVars, actVars>>

\* a variant of line 127 that goes on when orderRequestToOrderWire throws
SetOrderWireNoAbort(r) ==
    /\ orderWire' = IF r.tag = "throw" THEN Undefined ELSE r.val
    /\ pc' = "action"

\* r being the outcome of orderRequestToOrderWire(orderRequest, assetId)
SetOrderWire(r) ==
    IF r.tag = "throw"
    THEN pc' = "aborted" /\ UNCHANGED orderWire
    ELSE orderWire' = r.val /\ pc' = "action"

\* line 127; a throw ends the script before orderExample() is reached
EvalOrderWire ==
    /\ pc = "wire"
    /\ SetOrderWire(orderRequestToOrderWire(orderRequest, assetId))
    /\ UNCHANGED <<orderRequest, assetId, wallet, nonce, orderAction, signature, signCalls,
                   signedAction, signedNonce, requestData, posted,
                   floatVars, cloidVars, wireVars, actVars>>

\* line 128
EvalOrderAction ==
    /\ pc = "action"
    /\ orderAction' = orderWiresToOrderAction(<<orderWire>>)
    /\ pc' = "main"
    /\ UNCHANGED <<orderRequest, assetId, wallet, nonce, orderWire, signature, signCalls,
                   signedAction, signedNonce, requestData, posted,
                   floatVars, cloidVars, wireVars, actVars>>

\* line 202 and lines 159-164: orderExample() calls signStandardL1Action and awaits it
CallSign ==
    /\ pc = "main"
    /\ signCalls' = signCalls + 1
    /\ signedAction' = orderAction
    /\ signedNonce' = nonce
    /\ pc' = "signing"
    /\ UNCHANGED <<orderRequest, assetId, wallet, nonce, orderWire, orderAction, signature,
                   requestData, posted, floatVars, cloidVars, wireVars, actVars>>

\* the awaited signature arrives
SignResolve ==
    /\ pc = "signing"
    /\ signature' \in Signatures
    /\ pc' = "signed"
    /\ UNCHANGED <<orderRequest, assetId, wallet, nonce, orderWire, orderAction, signCalls,
                   signedAction, signedNonce, requestData, posted,
                   floatVars, cloidVars, wireVars, actVars>>

\* the awaited promise rejects: orderExample ends there
SignReject ==
    /\ pc = "signing"
    /\ pc' = "rejected"
    /\ UNCHANGED <<orderRequest, assetId, wallet, nonce, orderWire, orderAction, signature,
                   signCalls, signedAction, signedNonce, requestData, posted,
                   floatVars, cloidVars, wireVars, actVars>>

\* the action literal of the request body, lines 167-184
RequestAction ==
    [type |-> "order",
     orders |-> <<[a |-> assetId, b |-> TRUE, p |-> <<"9", "0", "0", "0", "0">>,
                   s |-> <<"0", ".", "0", "0", "1">>, r |-> FALSE,
                   t |-> [limit |-> [tif |-> "Gtc"]]]>>,
     grouping |-> "na"]

\* lines 166-197: the request body is built and posted
Post ==
    /\ pc = "signed"
    /\ requestData' = [action |-> RequestAction, nonce |-> nonce, signature |-> signature]
    /\ posted' = posted + 1
    /\ pc' = "posting"
    /\ UNCHANGED <<orderRequest, assetId, wallet, nonce, orderWire, orderAction, signature,
                   signCalls, signedAction, signedNonce,
                   floatVars, cloidVars, wireVars, actVars>>

\* line 199: the response is logged, or the post rejects
PostSettle ==
    /\ pc = "posting"
    /\ pc' \in {"done", "rejected"}
    /\ UNCHANGED <<orderRequest, assetId, wallet, nonce, orderWire, orderAction, signature,
                   signCalls, signedAction, signedNonce, requestData, posted,
                   floatVars, cloidVars, wireVars, actVars>>

MainNext ==
    \/ EvalOrderRequest
    \/ EvalConsts
    \/ EvalOrderWire
    \/ EvalOrderAction
    \/ CallSign
    \/ SignResolve
    \/ SignReject
    \/ Post
    \/ PostSettle

SpecMain == MainInit /\ [][MainNext]_vars

ValidationsOk ==
    /\ floatToWire(orderRequest.limit_px).tag = "ok"
    /\ floatToWire(orderRequest.sz).tag = "ok"
    /\ orderTypeToWire(orderRequest.order_type).tag = "ok"
    /\ cin # NoCloid => Cloid_from(cin).tag = "ok"

(* C5: no partial success.  The signer is called at most once, and only     *)
(* with the assembled OrderAction after every validation has succeeded; if  *)
(* a validation fails there is no OrderAction, no call of the signer and no *)
(* post; a post happens only with a signature obtained.                     *)
C5_NoPartialSuccess ==
    /\ signCalls <= 1 /\ posted <= 1
    /\ signCalls = 1 =>
          /\ ValidationsOk
          /\ orderAction = orderWiresToOrderAction(<<orderWire>>)
          /\ orderWire = orderRequestToOrderWire(orderRequest, assetId).val
          /\ signedAction = orderAction
    /\ ~ValidationsOk => (orderAction = Undefined /\ signCalls = 0 /\ posted = 0)
    /\ posted = 1 => (signCalls = 1 /\ signature \in Signatures)

C5_Witness ==
    /\ pc = "done"
    /\ signCalls = 1 /\ posted = 1
    /\ Has(orderRequest, "cloid")

====
